---- MODULE Spec2Model ----
(***************************************************************************)
(* A model of repo_content.py: the ignore-pattern loader, the path filter, *)
(* the binary detector and the tree walker that concatenates a directory   *)
(* tree into repository_contents.txt.                                      *)
(*                                                                         *)
(* Bytes are integers 0..255 and a character is its Unicode code point, so *)
(* text is a sequence of integers; each text literal below carries its     *)
(* reading in a comment.  A path relative to the traversal root is the     *)
(* sequence of its segments (what Path(rel_path).parts yields); rel_path   *)
(* joins them with "/".                                                    *)
(***************************************************************************)
EXTENDS Integers, Sequences, FiniteSets, TLC

(***************************************************************************)
(* Bounds of the model.                                                    *)
(***************************************************************************)
\* Depth of the directory tree below the traversal root.
MaxDepth == 2
\* Longest arbitrary byte prefix of a file handed to the binary detector.
MaxHead == 2
\* Longest run of plain text bytes that follows that prefix.
MaxPad == 20
\* Deepest directory handed to the path filter on its own.
MaxFilterDepth == 2

(***************************************************************************)
(* Program constants.                                                      *)
(***************************************************************************)
\* is_likely_binary(file_path, sample_size=8192)
sample_size == 8192
\* str(e)[:100]
ErrMax == 100
\* '=' * (len(rel_path) + 6)
SepExtra == 6

\* The code points the program and the libraries it calls single out.
Ord ==
  [nul |-> 0, tab |-> 9, nl |-> 10, cr |-> 13, bang |-> 33, star |-> 42,
   hyphen |-> 45, slash |-> 47, eq |-> 61, query |-> 63, lbracket |-> 91,
   rbracket |-> 93]

default_ignores ==
  << <<110,111,100,101,95,109,111,100,117,108,101,115>>,
     <<118,101,110,100,111,114>>,
     <<46,118,115,99,111,100,101>>,
     <<98,111,111,116,115,116,114,97,112,47,99,97,99,104,101>>,
     <<115,116,111,114,97,103,101>>,
     <<112,117,98,108,105,99,47,118,101,110,100,111,114>>,
     <<112,117,98,108,105,99,47,46,104,116,97,99,99,101,115,115>>,
     <<112,117,98,108,105,99,47,102,97,118,105,99,111,110,46,105,99,111>>,
     <<112,117,98,108,105,99,47,104,111,116>>,
     <<112,117,98,108,105,99,47,114,111,98,111,116,115,46,116,120,116>>,
     <<100,97,116,97,98,97,115,101,47,100,97,116,97>>,
     <<116,101,115,116,115>>,
     <<46,101,110,118>>,
     <<46,103,105,116>>,
     <<114,101,112,111,95,99,111,110,116,101,110,116,115,46,112,121>>,
     <<114,101,112,111,115,105,116,111,114,121,95,99,111,110,116,101,110,116,115,46,116,120,116>>,
     <<97,114,116,105,115,97,110>>,
     <<112,97,99,107,97,103,101,45,108,111,99,107,46,106,115,111,110>>,
     <<99,111,109,112,111,115,101,114,46,108,111,99,107>>,
     <<112,104,112,117,110,105,116,46,120,109,108>>,
     <<115,116,114,97,116,101,103,121,95,114,101,115,117,108,116,115>>,
     <<116,114,97,105,108,105,110,103,95,115,116,111,112,95,97,110,97,108,121,115,105,115>>,
     <<53,48,107,46,99,115,118>> >>

\* "repository_contents.txt"
output_filename ==
  <<114,101,112,111,115,105,116,111,114,121,95,99,111,110,116,101,110,116,115,46,116,120,116>>

\* ".repoignore"
RepoignoreName ==
  <<46,114,101,112,111,105,103,110,111,114,101>>

\* os.path.abspath(sys.argv[1]), one fixed absolute path: "/repo".
directory ==
  <<47,114,101,112,111>>

\* datetime.now().strftime('%Y-%m-%d %H:%M:%S'), one fixed instant:
\* "2026-01-01 00:00:00".
Timestamp ==
  <<50,48,50,54,45,48,49,45,48,49,32,48,48,58,48,48,58,48,48>>

\* "Repository Contents\n"
TitleLine ==
  <<82,101,112,111,115,105,116,111,114,121,32,67,111,110,116,101,110,116,115,10>>

\* "==================\n"
UnderLine ==
  <<61,61,61,61,61,61,61,61,61,61,61,61,61,61,61,61,61,61,10>>

\* "Directory: "
DirectoryLabel ==
  <<68,105,114,101,99,116,111,114,121,58,32>>

\* "Generated on: "
GeneratedLabel ==
  <<71,101,110,101,114,97,116,101,100,32,111,110,58,32>>

\* "File: "
FileLabel ==
  <<70,105,108,101,58,32>>

\* " (Skipped: "
SkippedOpen ==
  <<32,40,83,107,105,112,112,101,100,58,32>>

\* ")\n\n"
SkippedClose ==
  <<41,10,10>>

(***************************************************************************)
(* Sequences.                                                              *)
(***************************************************************************)
Min(a, b) ==
  IF a < b THEN a ELSE b

\* The least element of a non-empty set of integers.
Least(S) ==
  CHOOSE x \in S : \A y \in S : x <= y

\* s[:n]
Take(s, n) ==
  SubSeq(s, 1, Min(n, Len(s)))

\* c * n
Repeat(c, n) ==
  [i \in 1..n |-> c]

RECURSIVE Concat(_)
\* ''.join(seqs)
Concat(seqs) ==
  IF seqs = <<>> THEN <<>> ELSE Head(seqs) \o Concat(Tail(seqs))

\* The orders in which a directory listing may hand out the given names.
Orders(names) ==
  { [i \in 1..Len(names) |-> names[p[i]]] :
      p \in { q \in [1..Len(names) -> 1..Len(names)] :
                \A i, j \in 1..Len(names) : i # j => q[i] # q[j] } }

RECURSIVE Join(_)
\* os.path.join(*parts)
Join(parts) ==
  IF Len(parts) = 0 THEN <<>>
  ELSE IF Len(parts) = 1 THEN parts[1]
  ELSE parts[1] \o <<Ord.slash>> \o Join(Tail(parts))

\* os.path.relpath(path, base_dir) of an entry given by its segments.
rel_path(parts) ==
  Join(parts)

\* os.path.basename(rel_path)
basename(parts) ==
  parts[Len(parts)]

(***************************************************************************)
(* fnmatch.fnmatch on POSIX, as fnmatch.translate builds the expression:   *)
(* the whole name must match; "*" matches any run of characters, "/"       *)
(* included, "?" any one character, "[seq]" and "[!seq]" a character in or *)
(* out of a set, and anything else itself.                                 *)
(***************************************************************************)
\* The index of the "]" that ends the bracket expression whose first
\* character is at i, or 0 when there is none and "[" stands for itself.
BracketEnd(pat, i) ==
  LET n == Len(pat)
      j1 == IF i <= n /\ pat[i] = Ord.bang THEN i + 1 ELSE i
      j2 == IF j1 <= n /\ pat[j1] = Ord.rbracket THEN j1 + 1 ELSE j1
      closers == { j \in j2..n : pat[j] = Ord.rbracket }
  IN IF closers = {} THEN 0 ELSE Least(closers)

RECURSIVE RangeChunks(_, _, _)
\* The while loop that cuts stuff at the hyphens that make ranges: the
\* chunk starts at i, the next hyphen is looked for from index from.
RangeChunks(stuff, i, from) ==
  LET hyphens == { h \in from..Len(stuff) : stuff[h] = Ord.hyphen }
  IN IF hyphens = {} THEN << SubSeq(stuff, i, Len(stuff)) >>
     ELSE << SubSeq(stuff, i, Least(hyphens) - 1) >>
          \o RangeChunks(stuff, Least(hyphens) + 1, Least(hyphens) + 3)

RECURSIVE DropEmptyRanges(_, _)
\* for k in range(len(chunks)-1, 0, -1): a range whose ends are out of
\* order is removed; k is the index of the right chunk.
DropEmptyRanges(chunks, k) ==
  IF k < 2 THEN chunks
  ELSE LET l == chunks[k - 1]
           r == chunks[k]
       IN IF l[Len(l)] > r[1]
            THEN DropEmptyRanges(
                   SubSeq(chunks, 1, k - 2)
                     \o << SubSeq(l, 1, Len(l) - 1) \o Tail(r) >>
                     \o SubSeq(chunks, k + 1, Len(chunks)), k - 1)
          ELSE DropEmptyRanges(chunks, k - 1)

\* The chunks of the text between "[" and "]": consecutive chunks are the
\* two sides of a range.
Chunks(stuff) ==
  IF \A h \in 1..Len(stuff) : stuff[h] # Ord.hyphen THEN <<stuff>>
  ELSE LET raw == RangeChunks(stuff, 1, IF stuff[1] = Ord.bang THEN 3 ELSE 2)
           n == Len(raw)
           whole == IF raw[n] = <<>>
                      THEN [SubSeq(raw, 1, n - 1) EXCEPT ![n - 1] = @ \o <<Ord.hyphen>>]
                    ELSE raw
       IN DropEmptyRanges(whole, Len(whole))

\* Whether the set built from the chunks matches the character c.
ClassMatches(c, chunks) ==
  IF Len(chunks) = 1 /\ chunks[1] = <<>> THEN FALSE         \* (?!)
  ELSE IF chunks = << <<Ord.bang>> >> THEN TRUE             \* .
  ELSE LET negated == chunks[1][1] = Ord.bang
           member ==
             \/ \E k \in 1..Len(chunks) : \E p \in 1..Len(chunks[k]) :
                  /\ ~(negated /\ k = 1 /\ p = 1)
                  /\ chunks[k][p] = c
             \/ \E k \in 1..(Len(chunks) - 1) :
                  /\ chunks[k][Len(chunks[k])] <= c
                  /\ c <= chunks[k + 1][1]
       IN IF negated THEN ~member ELSE member

RECURSIVE GlobMatch(_, _, _, _)
GlobMatch(name, i, pat, j) ==
  IF j > Len(pat) THEN i > Len(name)
  ELSE IF pat[j] = Ord.star
    THEN GlobMatch(name, i, pat, j + 1)
         \/ (i <= Len(name) /\ GlobMatch(name, i + 1, pat, j))
  ELSE IF i > Len(name) THEN FALSE
  ELSE IF pat[j] = Ord.query THEN GlobMatch(name, i + 1, pat, j + 1)
  ELSE IF pat[j] = Ord.lbracket /\ BracketEnd(pat, j + 1) # 0
    THEN LET e == BracketEnd(pat, j + 1)
         IN /\ ClassMatches(name[i], Chunks(SubSeq(pat, j + 1, e - 1)))
            /\ GlobMatch(name, i + 1, pat, e + 1)
  ELSE pat[j] = name[i] /\ GlobMatch(name, i + 1, pat, j + 1)

fnmatch(name, pat) ==
  IF \A j \in 1..Len(pat) : pat[j] \notin {Ord.star, Ord.query, Ord.lbracket}
    THEN name = pat                 \* a pattern of literals matches itself only
  ELSE GlobMatch(name, 1, pat, 1)

\* os.path.join(*parts[:i+1]) for i in range(len(parts))
partial_path(parts, i) ==
  Join(SubSeq(parts, 1, i))

\* The strings should_ignore matches against the patterns: rel_path, its
\* base name and its prefixes.
PathStrings(parts) ==
  [rel |-> rel_path(parts),
   base |-> basename(parts),
   partial |-> [i \in 1..Len(parts) |-> partial_path(parts, i)]]

\* The same loop body without the base-name test.
MatchesPatternNoBasename(p, pattern) ==
  \/ fnmatch(p.rel, pattern)
  \/ \E i \in 1..Len(p.partial) : fnmatch(p.partial[i], pattern)

\* The body of the pattern loop of should_ignore for one pattern.
MatchesPattern(p, pattern) ==
  \/ fnmatch(p.rel, pattern)
  \/ fnmatch(p.base, pattern)
  \/ \E i \in 1..Len(p.partial) : fnmatch(p.partial[i], pattern)

should_ignore(parts, patterns) ==
  LET p == PathStrings(parts)
  IN \E k \in 1..Len(patterns) : MatchesPattern(p, patterns[k])

(***************************************************************************)
(* Text-mode reading: strict UTF-8 decoding and universal newlines.        *)
(***************************************************************************)
\* One step of the strict UTF-8 decoder at index i: the number of bytes of
\* the sequence that starts there and its code point, or len 0 when the
\* bytes are not a well-formed sequence (overlong forms, surrogates and
\* code points above U+10FFFF are not).
Utf8Step(bytes, i) ==
  LET c == bytes[i]
      At(k) == IF i + k <= Len(bytes) THEN bytes[i + k] ELSE -1
      Cont(k) == At(k) \in 128..191
      Low(k) == At(k) - 128
  IN IF c < 128 THEN [len |-> 1, cp |-> c]
     ELSE IF c \in 194..223 /\ Cont(1)
       THEN [len |-> 2, cp |-> (c - 192) * 64 + Low(1)]
     ELSE IF /\ \/ c = 224 /\ At(1) \in 160..191
                \/ c \in (225..236) \cup (238..239) /\ Cont(1)
                \/ c = 237 /\ At(1) \in 128..159
             /\ Cont(2)
       THEN [len |-> 3, cp |-> (c - 224) * 4096 + Low(1) * 64 + Low(2)]
     ELSE IF /\ \/ c = 240 /\ At(1) \in 144..191
                \/ c \in 241..243 /\ Cont(1)
                \/ c = 244 /\ At(1) \in 128..143
             /\ Cont(2)
             /\ Cont(3)
       THEN [len |-> 4,
             cp |-> (c - 240) * 262144 + Low(1) * 4096 + Low(2) * 64 + Low(3)]
     ELSE [len |-> 0, cp |-> 0]

RECURSIVE Utf8Decode(_, _)
\* bytes[i..] decoded: ok is FALSE where Python raises UnicodeDecodeError.
Utf8Decode(bytes, i) ==
  IF i > Len(bytes) THEN [ok |-> TRUE, text |-> <<>>]
  ELSE LET step == Utf8Step(bytes, i)
       IN IF step.len = 0 THEN [ok |-> FALSE, text |-> <<>>]
          ELSE LET rest == Utf8Decode(bytes, i + step.len)
               IN IF rest.ok THEN [ok |-> TRUE, text |-> <<step.cp>> \o rest.text]
                  ELSE rest

Utf8Valid(bytes) ==
  Utf8Decode(bytes, 1).ok

Decode(bytes) ==
  Utf8Decode(bytes, 1).text

RECURSIVE Newlines(_)
\* newline=None on input: "\r\n" and "\r" are read as "\n".
Newlines(s) ==
  IF s = <<>> THEN <<>>
  ELSE IF s[1] = Ord.cr
    THEN <<Ord.nl>> \o Newlines(IF Len(s) >= 2 /\ s[2] = Ord.nl
                                  THEN SubSeq(s, 3, Len(s)) ELSE Tail(s))
  ELSE <<s[1]>> \o Newlines(Tail(s))

RECURSIVE SplitLines(_, _)
\* f.readlines() without the line ends; cur is the line being collected.
SplitLines(s, cur) ==
  IF s = <<>> THEN (IF cur = <<>> THEN <<>> ELSE <<cur>>)
  ELSE IF s[1] = Ord.nl THEN <<cur>> \o SplitLines(Tail(s), <<>>)
  ELSE SplitLines(Tail(s), Append(cur, s[1]))

\* str.isspace for one character.
IsSpace(c) ==
  c \in (9..13) \cup (28..32) \cup {133, 160, 5760} \cup (8192..8202)
          \cup {8232, 8233, 8239, 8287, 12288}

RECURSIVE LStrip(_)
LStrip(s) ==
  IF s # <<>> /\ IsSpace(s[1]) THEN LStrip(Tail(s)) ELSE s

RECURSIVE RStrip(_)
RStrip(s) ==
  IF s # <<>> /\ IsSpace(s[Len(s)]) THEN RStrip(SubSeq(s, 1, Len(s) - 1)) ELSE s

\* line.strip()
Strip(s) ==
  RStrip(LStrip(s))

\* [line.strip() for line in f.readlines() if line.strip()] on a file of the
\* given bytes, read in text mode with UTF-8 as the locale's encoding;
\* raised says that readlines raises UnicodeDecodeError.
custom_patterns(bytes) ==
  IF ~Utf8Valid(bytes) THEN [raised |-> TRUE, patterns |-> <<>>]
  ELSE LET lines == SplitLines(Newlines(Decode(bytes)), <<>>)
           kept == SelectSeq(lines, LAMBDA l : Strip(l) # <<>>)
       IN [raised |-> FALSE, patterns |-> [k \in 1..Len(kept) |-> Strip(kept[k])]]

\* ignore is what the root holds under the name .repoignore: kind "none",
\* "file", or "locked" for an entry open() raises an OSError on (a
\* directory, a file without read permission), and the bytes of a file.
\* raised says that the call ends in an exception instead of a list.
read_repoignore(ignore) ==
  IF ignore.kind = "none" THEN [raised |-> FALSE, patterns |-> default_ignores]
  ELSE IF ignore.kind = "locked" THEN [raised |-> TRUE, patterns |-> <<>>]
  ELSE LET custom == custom_patterns(ignore.bytes)
       IN IF custom.raised THEN custom
          ELSE [raised |-> FALSE, patterns |-> default_ignores \o custom.patterns]

(***************************************************************************)
(* The binary detector.  A file is [probeOk, bytes, ioError, errText]:     *)
(* probeOk says that open(file_path, 'rb') and the read succeed.           *)
(***************************************************************************)
\* sum(1 for c in sample if c < 32 and c not in (9, 10, 13))
control_chars(sample) ==
  Cardinality({i \in 1..Len(sample) : sample[i] < 32 /\ sample[i] \notin {9, 10, 13}})

\* The same comparison with >= in place of >.
RatioReaches(sample) ==
  10 * control_chars(sample) >= Len(sample)

\* control_chars / len(sample) > 0.1 for a non-empty sample.  The quotient
\* is a correctly rounded double and 0.1 is the double nearest to 1/10; for
\* len(sample) <= 8192 the comparison agrees with the exact one.
RatioExceeds(sample) ==
  10 * control_chars(sample) > Len(sample)

is_likely_binary(file) ==
  IF ~file.probeOk THEN TRUE                       \* except Exception
  ELSE LET sample == Take(file.bytes, sample_size)
       IN IF \E i \in 1..Len(sample) : sample[i] = Ord.nul THEN TRUE
          ELSE IF Len(sample) = 0 THEN TRUE        \* ZeroDivisionError, caught
          ELSE RatioExceeds(sample)

\* open(file_path, 'r', encoding='utf-8') and f.read(): the content read, or
\* the exception raised.
ReadText(file) ==
  IF file.ioError THEN [ok |-> FALSE, error |-> "IOError", content |-> <<>>]
  ELSE IF ~Utf8Valid(file.bytes)
    THEN [ok |-> FALSE, error |-> "UnicodeDecodeError", content |-> <<>>]
  ELSE [ok |-> TRUE, error |-> "none", content |-> Newlines(Decode(file.bytes))]

(***************************************************************************)
(* The directory tree under the traversal root.  Every directory above     *)
(* MaxDepth holds the sub-directories DirNames.  The root and the          *)
(* directories in it hold the file a.txt; the root holds                   *)
(* repository_contents.txt as well, and .repoignore when there is one.     *)
(***************************************************************************)
\* "src"
NameSrc ==
  <<115,114,99>>

\* "node_modules"
NameNodeModules ==
  <<110,111,100,101,95,109,111,100,117,108,101,115>>

\* "a.txt"
NameATxt ==
  <<97,46,116,120,116>>

DirNames ==
  <<NameSrc, NameNodeModules>>

\* The sub-directories one os.walk step finds, in some order.
ListDirs(top) ==
  IF Len(top) < MaxDepth THEN DirNames ELSE <<>>

\* The files one os.walk step finds, in some order.
ListFiles(top, ignore) ==
  IF top = <<>>
    THEN (IF ignore.kind = "file" THEN <<RepoignoreName>> ELSE <<>>)
         \o <<NameATxt, output_filename>>
  ELSE IF Len(top) = 1 THEN <<NameATxt>>
  ELSE <<>>

\* What the root may hold under the name .repoignore: nothing, an entry that
\* cannot be opened, or a file holding "[a-b].txt\n", " src \n\n",
\* "s?c/s*\r\n" or the single byte 0xFF.
RepoignoreFiles ==
  { [kind |-> "none", bytes |-> <<>>],
    [kind |-> "locked", bytes |-> <<>>],
    [kind |-> "file", bytes |-> <<91,97,45,98,93,46,116,120,116,10>>],
    [kind |-> "file", bytes |-> <<32,115,114,99,32,10,10>>],
    [kind |-> "file", bytes |-> <<115,63,99,47,115,42,13,10>>],
    [kind |-> "file", bytes |-> <<255>>] }

\* The contents a file of the tree may have: empty, "h", U+00E9 "\r" in
\* UTF-8, and "h" 0xFF.
FileContents ==
  { <<>>, <<104>>, <<195,169,13>>, <<104,255>> }

\* A text of n characters for str(e).
ErrText(n) ==
  Repeat(101, n)

\* str(e) of the OSError a write to the destination raises:
\* "[Errno 28] No space left on device".
WriteError ==
  <<91,69,114,114,110,111,32,50,56,93,32,78,111,32,115,112,97,99,101,32,108,101,102,116,32,111,110,32,100,101,118,105,99,101>>

\* A file nothing was read from.
NoFile ==
  [probeOk |-> FALSE, bytes |-> <<>>, ioError |-> FALSE, errText |-> <<>>]

\* The files of the tree: one that cannot be opened at all, one for each of
\* FileContents, and one holding "h" whose text read raises an IOError.
\* errText is str(e) of the exception the text read raises: ErrMax
\* characters for the UnicodeDecodeError, ErrMax + 1 for the IOError, empty
\* when the read is not reached or succeeds.
FilesOnDisk ==
  {NoFile}
  \cup { [probeOk |-> TRUE, bytes |-> b, ioError |-> FALSE,
          errText |-> IF Utf8Valid(b) THEN <<>> ELSE ErrText(ErrMax)] :
            b \in FileContents }
  \cup { [probeOk |-> TRUE, bytes |-> <<104>>, ioError |-> TRUE,
          errText |-> ErrText(ErrMax + 1)] }

\* What the walk may find under the given name.
FileChoices(parts, ignore) ==
  IF parts = <<RepoignoreName>>
    THEN {[probeOk |-> TRUE, bytes |-> ignore.bytes, ioError |-> FALSE,
           errText |-> IF Utf8Valid(ignore.bytes) THEN <<>> ELSE ErrText(ErrMax)]}
  ELSE FilesOnDisk

\* What repository_contents.txt holds when it exists before the run: "old\n".
OldContents ==
  <<111,108,100,10>>

(***************************************************************************)
(* What the run writes.                                                    *)
(***************************************************************************)
\* The four output_file.write calls of main.
HeaderCalls ==
  << TitleLine,
     UnderLine,
     DirectoryLabel \o directory \o <<Ord.nl>>,
     GeneratedLabel \o Timestamp \o <<Ord.nl, Ord.nl>> >>

endswith_newline(content) ==
  content # <<>> /\ content[Len(content)] = Ord.nl

\* The write calls of the try block without the test of the last character.
BlockCallsAlwaysNewline(parts, content) ==
  << FileLabel \o rel_path(parts) \o <<Ord.nl>>,
     Repeat(Ord.eq, Len(rel_path(parts)) + SepExtra) \o <<Ord.nl>>,
     content, <<Ord.nl>>, <<Ord.nl>> >>

\* The write calls of the try block of process_directory.
BlockCalls(parts, content) ==
  << FileLabel \o rel_path(parts) \o <<Ord.nl>>,
     Repeat(Ord.eq, Len(rel_path(parts)) + SepExtra) \o <<Ord.nl>>,
     content >>
  \o (IF endswith_newline(content) THEN <<>> ELSE << <<Ord.nl>> >>)
  \o << <<Ord.nl>> >>

\* The write call of the except clause, without the [:100].
SkipCallsUntruncated(parts, errText) ==
  << FileLabel \o rel_path(parts) \o SkippedOpen \o errText \o SkippedClose >>

\* The write call of the except clause; errText is str(e).
SkipCalls(parts, errText) ==
  << FileLabel \o rel_path(parts) \o SkippedOpen \o Take(errText, ErrMax)
       \o SkippedClose >>

\* A comparison that never recognises the output file.
IsOutputFileNever(parts) ==
  FALSE

\* file_path.resolve() == output_path.resolve(): the tree has no links, so
\* the paths are equal when the segments are.
IsOutputFile(parts) ==
  parts = <<output_filename>>

\* The order of the tests of the file loop and where each leads; ignored is
\* should_ignore(file_path, directory, ignore_patterns).  "written" is the
\* try block entered with the content read, "skipped" the except clause
\* entered from the read.
Decision(parts, ignored, file) ==
  IF IsOutputFile(parts) THEN "self"
  ELSE IF ignored THEN "ignored"
  ELSE IF is_likely_binary(file) THEN "binary"
  ELSE IF ReadText(file).ok THEN "written"
  ELSE "skipped"

\* The most write calls one file leads to in the try block.
MaxCalls ==
  Len(BlockCallsAlwaysNewline(<<NameATxt>>, <<>>))

\* How the destination takes the writes for one file: accepted is the
\* number of write calls of the try block it takes before one raises an
\* OSError (none, the two lines ahead of the content, or MaxCalls: no call
\* raises), bannerOk whether it takes the write of the except clause.
Destinations ==
  [accepted : {0, 2, MaxCalls}, bannerOk : BOOLEAN]

Accepting ==
  [accepted |-> MaxCalls, bannerOk |-> TRUE]

\* One pass of the file loop: what it ends in and the text the destination
\* took.  An OSError raised by a write of the try block is an IOError, so
\* the except clause of the read catches it and writes its banner
\* ("write_failed"); an OSError raised by the write of the except clause
\* leaves the loop for except Exception of process_directory ("fatal").
Outcome(parts, ignored, file, dest) ==
  LET d == Decision(parts, ignored, file)
  IN IF d = "written"
       THEN LET calls == BlockCalls(parts, ReadText(file).content)
            IN IF dest.accepted >= Len(calls)
                 THEN [decision |-> "written", text |-> Concat(calls)]
               ELSE IF dest.bannerOk
                 THEN [decision |-> "write_failed",
                       text |-> Concat(Take(calls, dest.accepted))
                                  \o Concat(SkipCalls(parts, WriteError))]
               ELSE [decision |-> "fatal",
                     text |-> Concat(Take(calls, dest.accepted))]
     ELSE IF d = "skipped"
       THEN IF dest.bannerOk
              THEN [decision |-> "skipped",
                    text |-> Concat(SkipCalls(parts, file.errText))]
            ELSE [decision |-> "fatal", text |-> <<>>]
     ELSE [decision |-> d, text |-> <<>>]

(***************************************************************************)
(* State.                                                                  *)
(***************************************************************************)
VARIABLES
  pc,               \* where main is: "main", "open", "header", "walk", "exited"
  argc,             \* len(sys.argv)
  isdir,            \* os.path.isdir(directory)
  repoignore,       \* what the root holds under the name .repoignore
  preexisting,      \* repository_contents.txt exists before the run
  output,           \* the text the destination has taken
  stream,           \* output_file: "unopened", "open" or "closed"
  opens,            \* how often output_path was opened
  ignore_patterns,  \* the result of read_repoignore
  stack,            \* the directories os.walk has still to yield
  files,            \* the files of the current directory still to handle
  log,              \* one record per file the loop has handled
  walked,           \* one record per directory os.walk has listed or tried to
  pruned,           \* the directories removed from dirs
  walkErrors,       \* the directories whose listing failed
  exitCode,         \* -1 while running
  report,           \* the messages printed, in order
  probe,            \* the input and verdict of a lone binary test
  query             \* the input and verdict of a lone path-filter test

vars ==
  <<pc, argc, isdir, repoignore, preexisting, output, stream, opens,
    ignore_patterns, stack, files, log, walked, pruned, walkErrors,
    exitCode, report, probe, query>>

envVars ==
  <<argc, isdir, repoignore, preexisting, probe, query>>

walkVars ==
  <<stack, files, log, walked, pruned, walkErrors>>

NoProbe ==
  [phase |-> "idle", head |-> <<>>, pad |-> 0, tail |-> <<>>,
   probeOk |-> FALSE, verdict |-> FALSE]

NoQuery ==
  [phase |-> "idle", pattern |-> <<>>, dir |-> <<>>, below |-> <<>>,
   dirIgnored |-> FALSE, belowIgnored |-> FALSE]

Init ==
  /\ pc = "main"
  /\ argc \in 1..3
  /\ isdir \in BOOLEAN
  /\ repoignore \in RepoignoreFiles
  /\ preexisting \in BOOLEAN
  /\ output = (IF preexisting THEN OldContents ELSE <<>>)
  /\ stream = "unopened"
  /\ opens = 0
  /\ ignore_patterns = <<>>
  /\ stack = <<>>
  /\ files = <<>>
  /\ log = <<>>
  /\ walked = <<>>
  /\ pruned = {}
  /\ walkErrors = {}
  /\ exitCode = -1
  /\ report = <<>>
  /\ probe = NoProbe
  /\ query = NoQuery

(***************************************************************************)
(* main                                                                    *)
(***************************************************************************)
\* The process ends with exit code 1 after printing the messages.
Exit1(messages) ==
  /\ pc' = "exited"
  /\ exitCode' = 1
  /\ report' = report \o messages

\* len(sys.argv) != 2
Usage ==
  /\ pc = "main"
  /\ argc # 2
  /\ Exit1(<<"usage">>)
  /\ UNCHANGED <<envVars, walkVars, output, stream, opens, ignore_patterns>>

\* not os.path.isdir(directory)
NotADirectory ==
  /\ pc = "main"
  /\ argc = 2
  /\ ~isdir
  /\ Exit1(<<"not_a_directory">>)
  /\ UNCHANGED <<envVars, walkVars, output, stream, opens, ignore_patterns>>

\* ignore_patterns = read_repoignore(directory)
LoadPatterns ==
  /\ pc = "main"
  /\ argc = 2
  /\ isdir
  /\ ~read_repoignore(repoignore).raised
  /\ ignore_patterns' = read_repoignore(repoignore).patterns
  /\ pc' = "open"
  /\ UNCHANGED <<envVars, walkVars, output, stream, opens, exitCode, report>>

\* read_repoignore raises: the call is outside every try of main, so the
\* interpreter prints the traceback and ends the process with exit code 1
\* before the destination is opened.
LoadPatternsFails ==
  /\ pc = "main"
  /\ argc = 2
  /\ isdir
  /\ read_repoignore(repoignore).raised
  /\ Exit1(<<"traceback">>)
  /\ UNCHANGED <<envVars, walkVars, output, stream, opens, ignore_patterns>>

\* with open(output_path, 'w', encoding='utf-8') as output_file
OpenOutput ==
  /\ pc = "open"
  /\ stream' = "open"
  /\ opens' = opens + 1
  /\ output' = <<>>
  /\ pc' = "header"
  /\ UNCHANGED <<envVars, walkVars, ignore_patterns, exitCode, report>>

\* open raises: except Exception in main.
OpenFails ==
  /\ pc = "open"
  /\ Exit1(<<"create_error">>)
  /\ UNCHANGED <<envVars, walkVars, output, stream, opens, ignore_patterns>>

\* The header is written and process_directory is entered.
WriteHeader ==
  /\ pc = "header"
  /\ output' = output \o Concat(HeaderCalls)
  /\ stack' = << <<>> >>
  /\ pc' = "walk"
  /\ UNCHANGED <<envVars, files, log, walked, pruned, walkErrors, stream,
                 opens, ignore_patterns, exitCode, report>>

\* A write of the header raises after k calls: the with statement closes the
\* stream and except Exception in main exits.
HeaderFails ==
  /\ pc = "header"
  /\ \E k \in 0..(Len(HeaderCalls) - 1) :
       output' = output \o Concat(Take(HeaderCalls, k))
  /\ stream' = "closed"
  /\ Exit1(<<"create_error">>)
  /\ UNCHANGED <<envVars, walkVars, opens, ignore_patterns>>

(***************************************************************************)
(* process_directory                                                       *)
(***************************************************************************)
\* dirs[:] = [d for d in dirs if not should_ignore(root_path / d, ...)]
KeptDirs(top, dirs, patterns) ==
  SelectSeq(dirs, LAMBDA d : ~should_ignore(Append(top, d), patterns))

\* os.walk yields the next directory, its entries in the order the file
\* system hands them out; its dirs are filtered.
ScanDir ==
  /\ pc = "walk"
  /\ files = <<>>
  /\ stack # <<>>
  /\ LET top == Head(stack)
         ignored == { d \in {DirNames[k] : k \in 1..Len(ListDirs(top))} :
                        should_ignore(Append(top, d), ignore_patterns) }
     IN /\ \E listed \in Orders(ListFiles(top, repoignore)) :
             \E dirs \in Orders(ListDirs(top)) :
               LET kept == KeptDirs(top, dirs, ignore_patterns)
                   below == [k \in 1..Len(kept) |-> Append(top, kept[k])]
               IN /\ files' = [k \in 1..Len(listed) |-> Append(top, listed[k])]
                  /\ stack' = below \o Tail(stack)
                  /\ walked' = Append(walked, [top |-> top, ok |-> TRUE,
                                               files |-> files', kept |-> below])
        /\ pruned' = pruned \cup { Append(top, d) : d \in ignored }
  /\ UNCHANGED <<envVars, log, walkErrors, pc, output, stream,
                 opens, ignore_patterns, exitCode, report>>

\* os.walk cannot list the next directory: with onerror=None the error is
\* dropped and the directory yields nothing.
ScanFails ==
  /\ pc = "walk"
  /\ files = <<>>
  /\ stack # <<>>
  /\ stack' = Tail(stack)
  /\ walked' = Append(walked, [top |-> Head(stack), ok |-> FALSE,
                               files |-> <<>>, kept |-> <<>>])
  /\ walkErrors' = walkErrors \cup {Head(stack)}
  /\ UNCHANGED <<envVars, files, log, pruned, pc, output, stream,
                 opens, ignore_patterns, exitCode, report>>

\* One pass of the file loop that ends in the given way and stays in the
\* loop.
HandleFile(decision, choices, dests) ==
  /\ pc = "walk"
  /\ files # <<>>
  /\ LET ignored == should_ignore(Head(files), ignore_patterns)
     IN \E file \in choices : \E dest \in dests :
          LET o == Outcome(Head(files), ignored, file, dest)
          IN /\ o.decision = decision
             /\ output' = output \o o.text
             /\ log' = Append(log, [parts |-> Head(files), decision |-> decision,
                                    file |-> file, at |-> Len(output),
                                    end |-> Len(output')])
  /\ files' = Tail(files)
  /\ UNCHANGED <<envVars, stack, walked, pruned, walkErrors, pc, stream,
                 opens, ignore_patterns, exitCode, report>>

\* if file_path.resolve() == output_path.resolve(): continue
SkipOutputFile ==
  HandleFile("self", {NoFile}, {Accepting})

\* if should_ignore(file_path, directory, ignore_patterns): continue
SkipIgnored ==
  HandleFile("ignored", {NoFile}, {Accepting})

\* if is_likely_binary(file_path): continue
SkipBinary ==
  HandleFile("binary", FileChoices(Head(files), repoignore), {Accepting})

\* The try block runs to its end.
WriteContents ==
  HandleFile("written", FileChoices(Head(files), repoignore), {Accepting})

\* The read raises; except (UnicodeDecodeError, IOError) writes the banner.
WriteSkipped ==
  HandleFile("skipped", FileChoices(Head(files), repoignore), {Accepting})

\* A write of the try block raises; except (UnicodeDecodeError, IOError)
\* catches the OSError, writes the banner and the loop goes on.
WriteFails ==
  HandleFile("write_failed", FileChoices(Head(files), repoignore), Destinations)

\* Leaving process_directory without unwinding the with statement.
ExitFromWalkNoClose ==
  /\ stream' = stream
  /\ \E closeOk \in BOOLEAN :
       Exit1(IF closeOk THEN <<"process_error">>
             ELSE <<"process_error", "create_error">>)

\* sys.exit(1) in process_directory: SystemExit passes except Exception in
\* main, and the with statement closes the stream on the way out.  When the
\* close raises, its OSError takes the place of the SystemExit and reaches
\* except Exception in main.
ExitFromWalk ==
  /\ stream' = "closed"
  /\ \E closeOk \in BOOLEAN :
       Exit1(IF closeOk THEN <<"process_error">>
             ELSE <<"process_error", "create_error">>)

\* The write of the except clause raises: the OSError reaches except
\* Exception of process_directory.
BannerFails ==
  /\ pc = "walk"
  /\ files # <<>>
  /\ LET ignored == should_ignore(Head(files), ignore_patterns)
     IN \E file \in FileChoices(Head(files), repoignore) :
          \E dest \in Destinations :
            LET o == Outcome(Head(files), ignored, file, dest)
            IN /\ o.decision = "fatal"
               /\ output' = output \o o.text
               /\ log' = Append(log, [parts |-> Head(files), decision |-> "fatal",
                                      file |-> file, at |-> Len(output),
                                      end |-> Len(output')])
  /\ ExitFromWalk
  /\ UNCHANGED <<envVars, stack, files, walked, pruned, walkErrors,
                 opens, ignore_patterns>>

\* The walk is over.
WalkDone ==
  /\ pc = "walk"
  /\ files = <<>>
  /\ stack = <<>>

\* process_directory returns, the with statement closes the stream, main
\* prints the success message.
Finish ==
  /\ WalkDone
  /\ stream' = "closed"
  /\ pc' = "exited"
  /\ exitCode' = 0
  /\ report' = report \o <<"success">>
  /\ UNCHANGED <<envVars, walkVars, output, opens, ignore_patterns>>

\* process_directory returns and the close of the with statement raises:
\* except Exception in main.
FinishFails ==
  /\ WalkDone
  /\ stream' = "closed"
  /\ Exit1(<<"create_error">>)
  /\ UNCHANGED <<envVars, walkVars, output, opens, ignore_patterns>>

Next ==
  \/ Usage
  \/ NotADirectory
  \/ LoadPatterns
  \/ LoadPatternsFails
  \/ OpenOutput
  \/ OpenFails
  \/ WriteHeader
  \/ HeaderFails
  \/ ScanDir
  \/ ScanFails
  \/ SkipOutputFile
  \/ SkipIgnored
  \/ SkipBinary
  \/ WriteContents
  \/ WriteSkipped
  \/ WriteFails
  \/ BannerFails
  \/ Finish
  \/ FinishFails

Spec ==
  Init /\ [][Next]_vars

(***************************************************************************)
(* The binary detector on its own: Init draws a file, Classify applies     *)
(* is_likely_binary to it.  The file is head, then pad bytes "h", then     *)
(* tail; a pad of sample_size pushes the tail out of the sample.           *)
(***************************************************************************)
ByteAlphabet ==
  {0, 1, 9, 10, 13, 104}

Heads ==
  UNION { [1..n -> ByteAlphabet] : n \in 0..MaxHead }

Pads ==
  (0..MaxPad) \cup {sample_size}

Tails ==
  { <<>>, <<0>> }

ProbeBytes(p) ==
  p.head \o Repeat(104, p.pad) \o p.tail

Idle ==
  /\ pc = "idle"
  /\ argc = 2
  /\ isdir = TRUE
  /\ repoignore = [kind |-> "none", bytes |-> <<>>]
  /\ preexisting = FALSE
  /\ output = <<>>
  /\ stream = "unopened"
  /\ opens = 0
  /\ ignore_patterns = <<>>
  /\ stack = <<>>
  /\ files = <<>>
  /\ log = <<>>
  /\ walked = <<>>
  /\ pruned = {}
  /\ walkErrors = {}
  /\ exitCode = -1
  /\ report = <<>>

mainVars ==
  <<pc, argc, isdir, repoignore, preexisting, output, stream, opens,
    ignore_patterns, stack, files, log, walked, pruned, walkErrors,
    exitCode, report>>

InitBinary ==
  /\ Idle
  /\ query = NoQuery
  /\ probe \in [phase : {"ready"}, head : Heads, pad : Pads, tail : Tails,
                probeOk : BOOLEAN, verdict : {FALSE}]

\* is_likely_binary(file_path)
Classify ==
  /\ probe.phase = "ready"
  /\ probe' = [probe EXCEPT
       !.phase = "done",
       !.verdict = is_likely_binary([probeOk |-> probe.probeOk,
                                     bytes |-> ProbeBytes(probe),
                                     ioError |-> FALSE, errText |-> <<>>])]
  /\ UNCHANGED <<mainVars, query>>

NextBinary ==
  Classify

SpecBinary ==
  InitBinary /\ [][NextBinary]_vars

(***************************************************************************)
(* The path filter on its own: Init draws one pattern, a directory and an  *)
(* entry below it, ApplyFilter applies should_ignore to both.              *)
(***************************************************************************)
\* "*.log", "src", "s?c", "*", "src/*", "*_modules", "a.txt", "[r-t]rc",
\* "[!a-c]rc", "s[]r]c" and "src[/".
CustomPatterns ==
  { <<42,46,108,111,103>>, <<115,114,99>>, <<115,63,99>>, <<42>>, <<115,114,99,47,42>>, <<42,95,109,111,100,117,108,101,115>>, <<97,46,116,120,116>>,
    <<91,114,45,116,93,114,99>>, <<91,33,97,45,99,93,114,99>>, <<115,91,93,114,93,99>>, <<115,114,99,91,47>> }

FilterPatterns ==
  { default_ignores[k] : k \in 1..Len(default_ignores) } \cup CustomPatterns

FilterDirs ==
  UNION { [1..n -> {NameSrc, NameNodeModules}] : n \in 1..MaxFilterDepth }

FilterBelow ==
  { <<NameATxt>>, <<NameSrc, NameATxt>> }

InitFilter ==
  /\ Idle
  /\ probe = NoProbe
  /\ query \in [phase : {"ready"}, pattern : FilterPatterns, dir : FilterDirs,
                below : FilterBelow, dirIgnored : {FALSE},
                belowIgnored : {FALSE}]

\* should_ignore(path, base_dir, ignore_patterns) for the directory and for
\* the entry below it.
ApplyFilter ==
  /\ query.phase = "ready"
  /\ query' = [query EXCEPT
       !.phase = "done",
       !.dirIgnored = should_ignore(query.dir, <<query.pattern>>),
       !.belowIgnored = should_ignore(query.dir \o query.below, <<query.pattern>>)]
  /\ UNCHANGED <<mainVars, probe>>

NextFilter ==
  ApplyFilter

SpecFilter ==
  InitFilter /\ [][NextFilter]_vars

(***************************************************************************)
(* Properties.                                                             *)
(***************************************************************************)
\* What the handling of the i-th file added to the output.
LogRange(i) ==
  SubSeq(output, log[i].at + 1, log[i].end)

\* The run has printed the message.
Reported(message) ==
  \E i \in 1..Len(report) : report[i] = message

\* The built-in patterns that are plain names.
BuiltinNames ==
  { default_ignores[k] : k \in
      { j \in 1..Len(default_ignores) :
          \A c \in 1..Len(default_ignores[j]) :
            default_ignores[j][c] \notin
              {Ord.slash, Ord.star, Ord.query, Ord.lbracket} } }

\* The first n segments of a path hold a built-in ignored name.
HasIgnoredSegment(parts, n) ==
  \E i \in 1..n : parts[i] \in BuiltinNames

\* Every listing the walk took holds the files of its directory, each once,
\* and kept the sub-directories the path filter does not report.
ListingsSound ==
  \A i \in 1..Len(walked) :
    LET w == walked[i]
        here == ListFiles(w.top, repoignore)
        dirs == ListDirs(w.top)
    IN w.ok =>
         /\ Len(w.files) = Len(here)
         /\ { w.files[k] : k \in 1..Len(w.files) }
              = { Append(w.top, here[k]) : k \in 1..Len(here) }
         /\ \A k, l \in 1..Len(w.kept) : k # l => w.kept[k] # w.kept[l]
         /\ { w.kept[k] : k \in 1..Len(w.kept) }
              = { Append(w.top, dirs[k]) : k \in
                    { j \in 1..Len(dirs) :
                        ~should_ignore(Append(w.top, dirs[j]), ignore_patterns) } }

RECURSIVE ExpectedFiles(_)
\* The files of the listings in top-down order, starting at top: the files
\* of a directory, then what lies under each sub-directory that was kept.
ExpectedFiles(top) ==
  LET records == { i \in 1..Len(walked) : walked[i].top = top }
  IN IF records = {} THEN <<>>
     ELSE LET w == walked[Least(records)]
          IN w.files \o Concat([k \in 1..Len(w.kept) |-> ExpectedFiles(w.kept[k])])

Completed ==
  pc = "exited" /\ exitCode = 0

\* C1: a directory named like a built-in ignored name is never listed by
\* the walk, at any depth, and no file below such a directory is handled by
\* the file loop or given a range of the output.
C1_BuiltinDirsNeverEntered ==
  /\ \A i \in 1..Len(walked) :
       ~HasIgnoredSegment(walked[i].top, Len(walked[i].top))
  /\ \A i \in 1..Len(stack) : ~HasIgnoredSegment(stack[i], Len(stack[i]))
  /\ \A i \in 1..Len(files) : ~HasIgnoredSegment(files[i], Len(files[i]) - 1)
  /\ \A i \in 1..Len(log) : ~HasIgnoredSegment(log[i].parts, Len(log[i].parts) - 1)

C1_Witness ==
  /\ Completed
  /\ <<NameNodeModules>> \in pruned
  /\ <<NameSrc, NameNodeModules>> \in pruned
  /\ \E i \in 1..Len(walked) : walked[i].top = <<NameSrc, NameSrc>>
  /\ \E i \in 1..Len(log) :
       log[i].parts = <<NameSrc, NameATxt>> /\ log[i].decision = "written"

\* C2: a file that reached the text read and whose read fails does not end
\* the run: it gets the one line "File: <rel_path> (Skipped: <at most 100
\* characters of the error>)" and a blank line, and the loop goes on, so a
\* completed run has handled every file the walk listed.  The walk ends
\* early only when the destination refuses the write of a banner, and then
\* nothing was written for that file.
C2_ReadFailureIsolated ==
  /\ \A i \in 1..Len(log) :
       LET e == log[i]
           readFailed == /\ e.decision \notin {"self", "ignored", "binary"}
                         /\ ~ReadText(e.file).ok
           text == e.file.errText
           shown == IF Len(text) > ErrMax THEN SubSeq(text, 1, ErrMax) ELSE text
       IN readFailed =>
            /\ e.decision \in {"skipped", "fatal"}
            /\ e.decision = "skipped" =>
                 LogRange(i) = FileLabel \o rel_path(e.parts) \o SkippedOpen
                                 \o shown \o <<41, 10, 10>>
            /\ e.decision = "fatal" =>
                 /\ e.end = e.at
                 /\ i = Len(log)
                 /\ pc = "exited"
                 /\ exitCode = 1
  /\ Reported("process_error") =>
       (log # <<>> /\ log[Len(log)].decision = "fatal")
  /\ pc = "walk" => ~Reported("process_error")
  /\ Completed =>
       /\ ListingsSound
       /\ [i \in 1..Len(log) |-> log[i].parts] = ExpectedFiles(<<>>)

C2_Witness ==
  /\ Completed
  /\ \E i \in 1..Len(log) :
       /\ log[i].decision = "skipped"
       /\ Len(log[i].file.errText) > ErrMax
       /\ ReadText(log[i].file).error = "IOError"
       /\ \E j \in (i + 1)..Len(log) : log[j].decision = "written"
  /\ \E i \in 1..Len(log) :
       /\ log[i].decision = "skipped"
       /\ ReadText(log[i].file).error = "UnicodeDecodeError"

\* C3: an empty file that is neither the output file nor ignored is not
\* taken for binary, so that its block is written.
C3_EmptyFileIsText ==
  \A i \in 1..Len(log) :
    (/\ log[i].decision \notin {"self", "ignored"}
     /\ log[i].file.probeOk
     /\ log[i].file.bytes = <<>>) => log[i].decision # "binary"

\* C4: repository_contents.txt of the root is dropped by the comparison of
\* the resolved paths, ahead of the path filter and of any read, and adds
\* nothing to the output.
C4_OutputFileNeverIncluded ==
  \A i \in 1..Len(log) :
    log[i].parts = <<output_filename>> =>
      /\ log[i].decision = "self"
      /\ log[i].file = NoFile
      /\ log[i].at = log[i].end

C4_Witness ==
  /\ Completed
  /\ preexisting
  /\ repoignore.kind = "file"
  /\ Take(output, Len(OldContents)) # OldContents
  /\ \E i \in 1..Len(log) :
       /\ log[i].parts = <<output_filename>>
       /\ i < Len(log)

\* C5: for a readable file with a non-empty sample the verdict is binary
\* exactly when the sample holds a null byte or more than a tenth of it are
\* bytes below 32 other than 9, 10 and 13.
C5_BinaryThreshold ==
  (probe.phase = "done" /\ probe.probeOk) =>
    LET bytes == ProbeBytes(probe)
        n == IF Len(bytes) > sample_size THEN sample_size ELSE Len(bytes)
        nulls == { i \in 1..n : bytes[i] = 0 }
        controls == { i \in 1..n : bytes[i] < 32 /\ bytes[i] # 9
                                    /\ bytes[i] # 10 /\ bytes[i] # 13 }
    IN n > 0 => (probe.verdict <=> (nulls # {} \/ 10 * Cardinality(controls) > n))

C5_Witness ==
  /\ probe.phase = "done"
  /\ probe.probeOk
  /\ probe.tail = <<>>
  /\ probe.head = <<1, 104>>
  /\ probe.pad = 18
  /\ ~probe.verdict

\* C6: the range of a file that was read and whose writes the destination
\* took is "File: <rel_path>", a line of len(rel_path) + 6 "=", the
\* contents, one newline exactly when the contents do not end with one, and
\* one blank line.  A write the destination refuses cuts this text short
\* and changes nothing in what precedes the cut.
C6_BlockLayout ==
  \A i \in 1..Len(log) :
    LET e == log[i]
        rel == rel_path(e.parts)
        content == ReadText(e.file).content
        last == IF content = <<>> THEN -1 ELSE content[Len(content)]
        layout == <<70, 105, 108, 101, 58, 32>> \o rel \o <<10>>
                    \o [k \in 1..(Len(rel) + 6) |-> 61] \o <<10>>
                    \o content
                    \o (IF last = 10 THEN <<>> ELSE <<10>>)
                    \o <<10>>
    IN /\ e.decision = "written" =>
            (ReadText(e.file).ok /\ LogRange(i) = layout)
       /\ (e.decision \in {"write_failed", "fatal"} /\ ReadText(e.file).ok) =>
            \E n \in 0..(Len(layout) - 1) :
              /\ n <= e.end - e.at
              /\ SubSeq(LogRange(i), 1, n) = SubSeq(layout, 1, n)
              /\ e.decision = "fatal" => n = e.end - e.at

C6_Witness ==
  /\ Completed
  /\ \E i \in 1..Len(log) :
       log[i].decision = "written" /\ log[i].file.bytes = <<104>>
  /\ \E i \in 1..Len(log) :
       log[i].decision = "written" /\ log[i].file.bytes = <<195, 169, 13>>

\* C7: when should_ignore reports a directory as ignored for a pattern, it
\* reports every entry below that directory as ignored for the pattern too.
C7_ExcludesPropagate ==
  (query.phase = "done" /\ query.dirIgnored) => query.belowIgnored

\* C8: a run in which the traversal root could not be listed ends with exit
\* code 1 and an error report, never with exit code 0.
C8_RootFailureIsFatal ==
  (pc = "exited" /\ <<>> \in walkErrors) =>
    (exitCode = 1 /\ ~Reported("success"))

\* C9: the stream is opened at most once, only after the arguments are
\* checked and the patterns loaded; a run that opened it ends with it
\* closed, and nothing is written once it is closed.
C9_StreamScoped ==
  /\ [](/\ opens <= 1
        /\ (opens = 0) <=> (stream = "unopened")
        /\ stream # "unopened" =>
             /\ argc = 2 /\ isdir
             /\ ~read_repoignore(repoignore).raised
             /\ ignore_patterns = read_repoignore(repoignore).patterns
        /\ stream = "open" => pc \in {"header", "walk"}
        /\ pc = "exited" => stream # "open"
        /\ (pc = "exited" /\ (Reported("success") \/ Reported("process_error")))
             => stream = "closed")
  /\ [][stream = "closed" => (stream' = "closed" /\ output' = output)]_vars

C9_Witness ==
  /\ pc = "exited"
  /\ report = <<"process_error">>
  /\ stream = "closed"
  /\ opens = 1

\* C10: in a completed run the output is the header followed by the ranges
\* of the files in the order they were handled; a file has a range exactly
\* when it is not the output file, not ignored and not binary, and that
\* range is either the whole block of a file that was read or the skip
\* banner of a file whose read failed.
C10_OneEntryPerFile ==
  Completed =>
    /\ Take(output, Len(Concat(HeaderCalls))) = Concat(HeaderCalls)
    /\ \A i \in 1..Len(log) :
         /\ log[i].at = (IF i = 1 THEN Len(Concat(HeaderCalls)) ELSE log[i - 1].end)
         /\ LET e == log[i]
                qualifies == /\ e.parts # <<output_filename>>
                             /\ ~should_ignore(e.parts, ignore_patterns)
                             /\ ~is_likely_binary(e.file)
            IN /\ qualifies <=> (e.end > e.at)
               /\ qualifies =>
                    \/ /\ ReadText(e.file).ok
                       /\ LogRange(i) = Concat(BlockCalls(e.parts, ReadText(e.file).content))
                    \/ /\ ~ReadText(e.file).ok
                       /\ LogRange(i) = Concat(SkipCalls(e.parts, e.file.errText))
    /\ Len(output) = (IF log = <<>> THEN Len(Concat(HeaderCalls)) ELSE log[Len(log)].end)
====
